---- MODULE Spec2Model ----
(***************************************************************************)
(* A model of lib/plugin-event-handlers.ts: the plugin's lifecycle state   *)
(* machine (the module-level `state`), the messages file written at run    *)
(* and spec boundaries, and the pretty formatter streams.                  *)
(***************************************************************************)
EXTENDS Integers, Sequences, FiniteSets, TLC

VARIABLES
  config,    \* config.isTextTerminal and the memoized preprocessor flags
  state,     \* the module-level `state: State`
  channels,  \* every pretty stream created so far: ended flag, envelopes emitted to it
  log,       \* the file at messagesPath: whether it exists and its lines
  ret        \* what the last handler call did: its name, its input and how it ended

vars == <<config, state, channels, log, ret>>

(***************************************************************************)
(* Bounds of the model.                                                    *)
(***************************************************************************)
\* The size a state may grow to: the envelopes held by the messages file and by
\* state.messages (documents and pickles not counted), the pretty streams created,
\* and the testStepFinished envelopes the open stream was handed but state.messages
\* does not hold.
MaxSize == 5

\* The size a state of a single-scenario run may grow to, counted the same way.
MaxRun == 10


(***************************************************************************)
(* Envelopes (messages.Envelope).  Exactly one payload per envelope; the   *)
(* payload's name is kept in `type`.                                       *)
(***************************************************************************)
NULL == "null"

GherkinDocument(uri) == [type |-> "gherkinDocument", uri |-> uri]

Pickle(id, uri, steps) == [type |-> "pickle", id |-> id, uri |-> uri, steps |-> steps]

TestStep(id, pickleStepId, hookId) ==
  [id |-> id, pickleStepId |-> pickleStepId, hookId |-> hookId]

TestCase(id, testSteps) == [type |-> "testCase", id |-> id, testSteps |-> testSteps]

TestCaseStarted(data) ==
  [type |-> "testCaseStarted", id |-> data.id, testCaseId |-> data.testCaseId]

TestStepStarted(data) ==
  [type |-> "testStepStarted", testCaseStartedId |-> data.testCaseStartedId,
   testStepId |-> data.testStepId]

TestStepFinished(data) ==
  [type |-> "testStepFinished", testCaseStartedId |-> data.testCaseStartedId,
   testStepId |-> data.testStepId]

TestCaseFinished(data) ==
  [type |-> "testCaseFinished", testCaseStartedId |-> data.testCaseStartedId]

Attachment(testCaseStartedId, testStepId, body, mediaType, contentEncoding) ==
  [type |-> "attachment", testCaseStartedId |-> testCaseStartedId,
   testStepId |-> testStepId, body |-> body, mediaType |-> mediaType,
   contentEncoding |-> contentEncoding]

Meta == [type |-> "meta"]

TestRunStarted == [type |-> "testRunStarted"]

TestRunFinished == [type |-> "testRunFinished"]

(***************************************************************************)
(* Inputs the orchestrator may hand to the handlers.                       *)
(***************************************************************************)
\* ITaskSpecEnvelopes.messages: the static scenario data of a spec.  Step ts1 is a
\* pickle step; step ts2 of this test case names neither a pickle step nor a hook.
FullSpecEnvelopes ==
  << GherkinDocument("u1"),
     Pickle("p1", "u1", <<"ps1">>),
     TestCase("p1", << TestStep("ts1", "ps1", NULL), TestStep("ts2", NULL, NULL) >>) >>

\* The same scenario without its source document; here step ts2 is a hook step.
NoDocumentSpecEnvelopes ==
  << Pickle("p1", "u1", <<"ps1">>),
     TestCase("p1", << TestStep("ts1", "ps1", NULL), TestStep("ts2", NULL, "h1") >>) >>

SpecEnvelopes == {FullSpecEnvelopes, NoDocumentSpecEnvelopes}

\* Two test cases may be started under the same id, and one for a pickle that the
\* spec's envelopes do not hold.
ITaskTestCaseStarted ==
  { [id |-> "tcs1", testCaseId |-> "p1"],
    [id |-> "tcs1", testCaseId |-> "p2"] }

\* The testCaseStartedId a step names need not be that of the open test case.
ITaskTestStepStarted ==
  { [testCaseStartedId |-> "tcs1", testStepId |-> "ts1"],
    [testCaseStartedId |-> "tcs2", testStepId |-> "ts2"] }

ITaskTestStepFinished ==
  { [testCaseStartedId |-> "tcs1", testStepId |-> "ts1"],
    [testCaseStartedId |-> "tcs1", testStepId |-> "ts2"],
    [testCaseStartedId |-> "tcs2", testStepId |-> "ts1"] }

ITaskTestCaseFinished == { [testCaseStartedId |-> "tcs1"] }

\* A media type is the sequence of its parts; "base64:" is the marker part.
ITaskCreateStringAttachment ==
  { [data |-> "note", mediaType |-> <<"text/plain">>, encoding |-> "IDENTITY"] }

\* Cypress.ScreenshotDetails: the path and what fs.readFile finds there.
ScreenshotDetails ==
  { [path |-> "shot.png", bytes |-> "PNG"], [path |-> "gone.png", bytes |-> NULL] }

\* An optional value: undefined, or defined with a value.
UNDEFINED == [defined |-> FALSE]

Defined(x) == [defined |-> TRUE, value |-> x]

\* One call of attach(data, mediaType) made by an onAfterStep callback.
TextCall(value, mediaType) == [kind |-> "string", value |-> value, mediaType |-> mediaType]

BufferCall(value, mediaType) == [kind |-> "Buffer", value |-> value, mediaType |-> mediaType]

OtherCall == [kind |-> "other", value |-> "42", mediaType |-> UNDEFINED]

\* options.onAfterStep: absent, or a callback making these attach calls in order.
OnAfterStep ==
  { UNDEFINED,
    Defined(<< TextCall("QUJD", Defined(<<"base64:", "image/png">>)) >>),
    Defined(<< TextCall("hello", UNDEFINED), BufferCall("ABC", Defined(<<"image/png">>)) >>),
    Defined(<< TextCall("hello", Defined(<<"text/html">>)), BufferCall("ABC", UNDEFINED) >>),
    Defined(<< OtherCall >>) }

(***************************************************************************)
(* Helpers.                                                                *)
(***************************************************************************)
\* Buffer.prototype.toString("base64") on the byte strings of the model.
ToBase64(bytes) ==
  CASE bytes = "ABC" -> "QUJD"
    [] bytes = "PNG" -> "UE5H"
    [] OTHER -> <<"base64", bytes>>

\* String.prototype.includes("base64:") in the place of startsWith.
IncludesBase64(mediaType) == \E i \in 1..Len(mediaType) : mediaType[i] = "base64:"

\* String.prototype.startsWith("base64:") on a media type.
StartsWithBase64(mediaType) == Len(mediaType) > 0 /\ mediaType[1] = "base64:"

RECURSIVE ReplaceFirst(_, _)
\* String.prototype.replace(part, ""): the first occurrence is removed.
ReplaceFirst(mediaType, part) ==
  IF mediaType = << >> THEN << >>
  ELSE IF Head(mediaType) = part THEN Tail(mediaType)
  ELSE <<Head(mediaType)>> \o ReplaceFirst(Tail(mediaType), part)

\* The attach capability given to onAfterStep: the ITaskCreateStringAttachment it
\* pushes, or the Error it throws.
attach(call) ==
  IF call.kind = "string" THEN
    LET mediaType == IF call.mediaType.defined THEN call.mediaType.value ELSE <<"text/plain">>
    IN  IF StartsWithBase64(mediaType)
        THEN [data |-> call.value, mediaType |-> ReplaceFirst(mediaType, "base64:"),
              encoding |-> "BASE64"]
        ELSE [data |-> call.value, mediaType |-> mediaType, encoding |-> "IDENTITY"]
  ELSE IF call.kind = "Buffer" THEN
    IF ~call.mediaType.defined
    THEN [error |-> "Buffer attachments must specify a media type"]
    ELSE [data |-> ToBase64(call.value), mediaType |-> call.mediaType.value,
          encoding |-> "BASE64"]
  ELSE [error |-> "Invalid attachment data: must be a Buffer or string"]

IsError(x) == "error" \in DOMAIN x

\* Which variants of State carry `messages` and `pretty`.
HasMessages(st) ==
  st.state \in {"received-envelopes", "test-started", "step-started", "step-finished",
                "test-finished"}

HasPretty(st) == st.state = "before-spec" \/ HasMessages(st)

PrettyDisabled == [enabled |-> FALSE]

PrettyEnabled(n) == [enabled |-> TRUE, writable |-> n]

\* createPrettyStream() with createPrettyFormatter(): a new stream, nothing emitted.
createPrettyStream(chs) == Append(chs, [ended |-> FALSE, emitted |-> << >>])

\* pretty.broadcaster.emit("envelope", message) for each message, when enabled.
Emit(chs, pretty, msgs) ==
  IF pretty.enabled
  THEN [chs EXCEPT ![pretty.writable].emitted = @ \o msgs]
  ELSE chs

\* An end that leaves the stream unfinished.
endUnfinished(chs, n) == chs

\* end(stream): what the stream was handed is flushed to the console (which is not
\* modelled) and the stream is finished.
end(chs, n) == [chs EXCEPT ![n] = [ended |-> TRUE, emitted |-> << >>]]

\* Array.prototype.findLastIndex (1-based; 0 when nothing matches).
FindLastIndex(msgs, type) ==
  LET hits == {i \in 1..Len(msgs) : msgs[i].type = type}
  IN  IF hits = {} THEN 0 ELSE CHOOSE i \in hits : \A j \in hits : j <= i

\* Array.prototype.find: the first of the positions that satisfy the test
\* (1-based; 0 when none does).
FindIndex(hits) ==
  IF hits = {} THEN 0 ELSE CHOOSE i \in hits : \A j \in hits : i <= j

Count(msgs, type) == Cardinality({i \in 1..Len(msgs) : msgs[i].type = type})

\* The envelopes of a sequence, its documents and pickles not counted.
Weight(msgs) ==
  Cardinality({i \in 1..Len(msgs) : msgs[i].type \notin {"gherkinDocument", "pickle"}})

\* testStepFinished envelopes the open stream was handed beyond those of state.messages.
Rejected ==
  IF HasMessages(state) /\ state.pretty.enabled
  THEN LET d == Count(channels[state.pretty.writable].emitted, "testStepFinished")
                  - Count(state.messages, "testStepFinished")
       IN  IF d > 0 THEN d ELSE 0
  ELSE 0

\* The size of the current state, which MaxSize bounds.
Used ==
  Weight(log.lines) + (IF HasMessages(state) THEN Weight(state.messages) ELSE 0)
    + Len(channels) + Rejected

\* The state is within the bound: its size, and what each stream was handed.
Fits ==
  /\ Used <= MaxSize
  /\ \A n \in 1..Len(channels) : Weight(channels[n].emitted) <= MaxSize

\* How a handler call ended: "returned" after acting, "passthrough" on an early
\* return of its mode checks, or the error it threw.
Return(handler, outcome) == [handler |-> handler, outcome |-> outcome]

\* The same for the spec handlers, with isFeature(spec).
ReturnSpec(handler, outcome, feature) ==
  [handler |-> handler, outcome |-> outcome, feature |-> feature]

\* The same for specEnvelopesHandler, with data.messages.
ReturnData(outcome, data) ==
  [handler |-> "specEnvelopesHandler", outcome |-> outcome, data |-> data]

\* The same for testStepFinishedHandler once past its state switch, with the
\* event and the callback it was called with (undefined when it never calls one).
ReturnStep(outcome, testStepFinished, onAfterStep) ==
  [handler |-> "testStepFinishedHandler", outcome |-> outcome,
   testStepFinished |-> testStepFinished, onAfterStep |-> onAfterStep]

\* createStateError(stateHandler, currentState), thrown.
createStateError(stateHandler, currentState) ==
  [handler |-> stateHandler, outcome |-> "StateError", feature |-> TRUE]


(***************************************************************************)
(* The initial state: `let state: State = { state: "initial" }`, no stream *)
(* created, no messages file yet, and any configuration.  The       *)
(* preprocessor configuration is resolved through memoize(), so it is the  *)
(* same for every handler call of a run.                                   *)
(***************************************************************************)
Configs == [isTextTerminal : BOOLEAN, messages : BOOLEAN, pretty : BOOLEAN]

StateInitial == [state |-> "initial"]

StateAfterSpec == [state |-> "after-spec"]

Init ==
  /\ config \in Configs
  /\ state = StateInitial
  /\ channels = << >>
  /\ log = [exists |-> FALSE, lines |-> << >>]
  /\ ret = Return("none", "none")

(***************************************************************************)
(* beforeRunHandler / afterRunHandler                                      *)
(***************************************************************************)
\* A run start that leaves the file in place and appends to it.
beforeRunWriteAppends(lg) ==
  [exists |-> TRUE, lines |-> lg.lines \o << Meta, TestRunStarted >>]

\* fs.rm(messagesPath) followed by fs.writeFile(messagesPath, meta + testRunStarted)
beforeRunWrite(lg) == [exists |-> TRUE, lines |-> << Meta, TestRunStarted >>]

beforeRunHandler ==
  /\ IF ~config.isTextTerminal \/ ~config.messages
     THEN /\ UNCHANGED log
          /\ ret' = Return("beforeRunHandler", "passthrough")
     ELSE /\ log' = beforeRunWrite(log)
          /\ ret' = Return("beforeRunHandler", "returned")
  /\ UNCHANGED <<config, state, channels>>

\* A write without the append flag.
afterRunWriteTruncates(lg) == [exists |-> TRUE, lines |-> << TestRunFinished >>]

\* fs.writeFile(messagesPath, testRunFinished, { flag: "a" })
afterRunWrite(lg) == [exists |-> TRUE, lines |-> Append(lg.lines, TestRunFinished)]

\* The json and html reports are derived from the file and leave it as it is; the
\* early return at lines 233-239 is decided by messages alone here.
afterRunHandler ==
  /\ IF ~config.isTextTerminal \/ ~config.messages \/ ~log.exists
     THEN /\ UNCHANGED log
          /\ ret' = Return("afterRunHandler", "passthrough")
     ELSE /\ log' = afterRunWrite(log)
          /\ ret' = Return("afterRunHandler", "returned")
  /\ UNCHANGED <<config, state, channels>>

(***************************************************************************)
(* beforeSpecHandler                                                       *)
(***************************************************************************)
\* A switch that opens a fresh spec whatever is in flight.
beforeSpecOpensAgain == {"initial", "after-spec", "before-spec", "step-started"}

\* case "initial": case "after-spec":
beforeSpecOpens == {"initial", "after-spec"}

\* case "before-spec": case "step-started": break;
beforeSpecStays == {"before-spec", "step-started"}

\* Does the handler get past its early returns for this spec?
beforeSpecActive(feature) ==
  config.isTextTerminal /\ feature /\ (config.messages \/ config.pretty)

beforeSpecHandler(feature) ==
    /\ UNCHANGED <<config, log>>
    /\ IF ~beforeSpecActive(feature)
       THEN /\ ret' = ReturnSpec("beforeSpecHandler", "passthrough", feature)
            /\ UNCHANGED <<state, channels>>
       ELSE IF state.state \in beforeSpecOpens
       THEN /\ ret' = ReturnSpec("beforeSpecHandler", "returned", feature)
            /\ IF config.pretty
               THEN /\ channels' = createPrettyStream(channels)
                    /\ state' = [state |-> "before-spec",
                                 pretty |-> PrettyEnabled(Len(channels) + 1)]
               ELSE /\ UNCHANGED channels
                    /\ state' = [state |-> "before-spec", pretty |-> PrettyDisabled]
       ELSE IF state.state \in beforeSpecStays
       THEN /\ ret' = ReturnSpec("beforeSpecHandler", "returned", feature)
            /\ UNCHANGED <<state, channels>>
       ELSE /\ ret' = [createStateError("beforeSpecHandler", state.state)
                         EXCEPT !.feature = feature]
            /\ UNCHANGED <<state, channels>>

(***************************************************************************)
(* afterSpecHandler                                                        *)
(***************************************************************************)
\* `results` is undefined when running via `cypress open`, where isTextTerminal
\* is false; otherwise it tells whether a hook failure skipped the remaining tests.
RunResults ==
  IF config.isTextTerminal
  THEN {Defined([wasRemainingSkipped |-> FALSE]), Defined([wasRemainingSkipped |-> TRUE])}
  ELSE {UNDEFINED}

\* A handler that writes the buffer whether or not a hook failure was seen.
afterSpecWriteAlways(lg, st, results) ==
  IF config.messages /\ results.defined /\ HasMessages(st)
  THEN [exists |-> TRUE, lines |-> lg.lines \o st.messages]
  ELSE lg

\* Lines 396-417: what the messages file holds after the handler.
afterSpecWrite(lg, st, results) ==
  IF config.messages /\ results.defined
  THEN IF results.value.wasRemainingSkipped THEN lg
       ELSE IF HasMessages(st)
            THEN [exists |-> TRUE, lines |-> lg.lines \o st.messages]
            ELSE lg
  ELSE lg

\* A handler that forgets to end the stream.
afterSpecEndForgotten(chs, st) == chs

\* Lines 419-421: the stream is ended when the state holds an enabled one.
afterSpecEnd(chs, st) ==
  IF HasPretty(st) /\ st.pretty.enabled THEN end(chs, st.pretty.writable) ELSE chs

afterSpecHandler(feature, results) ==
    /\ UNCHANGED config
    /\ IF ~config.isTextTerminal \/ ~feature
       THEN /\ ret' = ReturnSpec("afterSpecHandler", "passthrough", feature)
            /\ UNCHANGED <<state, channels, log>>
       ELSE /\ log' = afterSpecWrite(log, state, results)
            /\ channels' = afterSpecEnd(channels, state)
            /\ state' = StateAfterSpec
            /\ ret' = [handler |-> "afterSpecHandler", outcome |-> "returned",
                       feature |-> feature, results |-> results]

(***************************************************************************)
(* afterScreenshotHandler                                                  *)
(***************************************************************************)
\* case "step-started": break; default: return details;
afterScreenshotAccepts == {"step-started"}

\* The attachment envelope of lines 459-468.
screenshotMessage(st, details) ==
  Attachment(st.testCaseStartedId, st.testStepStartedId, ToBase64(details.bytes),
             <<"image/png">>, "BASE64")

\* A handler without the state switch, building the envelope from whatever ids
\* the state holds.
afterScreenshotHandlerAnyState(details) ==
    /\ UNCHANGED <<config, channels, log>>
    /\ IF ~config.isTextTerminal \/ ~config.messages
       THEN /\ ret' = Return("afterScreenshotHandler", "passthrough")
            /\ UNCHANGED state
       ELSE IF ~HasMessages(state) \/ details.bytes = NULL
       THEN /\ ret' = Return("afterScreenshotHandler", "details")
            /\ UNCHANGED state
       ELSE /\ state' = [state EXCEPT !.messages =
                 Append(@, Attachment(
                   IF "testCaseStartedId" \in DOMAIN state
                     THEN state.testCaseStartedId ELSE NULL,
                   IF "testStepStartedId" \in DOMAIN state
                     THEN state.testStepStartedId ELSE NULL,
                   ToBase64(details.bytes), <<"image/png">>, "BASE64"))]
            /\ ret' = Return("afterScreenshotHandler", "returned")

afterScreenshotHandler(details) ==
    /\ UNCHANGED <<config, channels, log>>
    /\ IF ~config.isTextTerminal \/ ~config.messages
       THEN /\ ret' = Return("afterScreenshotHandler", "passthrough")
            /\ UNCHANGED state
       ELSE IF state.state \notin afterScreenshotAccepts \/ details.bytes = NULL
       THEN /\ ret' = Return("afterScreenshotHandler", "details")
            /\ UNCHANGED state
       ELSE /\ state' = [state EXCEPT !.messages = Append(@, screenshotMessage(state, details))]
            /\ ret' = Return("afterScreenshotHandler", "returned")

(***************************************************************************)
(* specEnvelopesHandler                                                    *)
(***************************************************************************)
\* case "before-spec": break;
specEnvelopesAccepts == {"before-spec"}

\* case "step-started": the reload
specEnvelopesReloads == {"step-started"}

\* A reload that truncates nothing.
specEnvelopesRollbackKeepsAll(msgs, data) == msgs

\* A slice that is off by one and keeps the testCaseStarted envelope.
specEnvelopesRollbackKeepsStart(msgs, data) ==
  SubSeq(msgs, 1, FindLastIndex(msgs, "testCaseStarted"))

\* A reload that replaces the buffer by the envelopes received.
specEnvelopesRollbackReplaces(msgs, data) == data

\* state.messages.slice(0, iTestCaseStarted), iTestCaseStarted being 0-based.
specEnvelopesRollback(msgs, data) ==
  SubSeq(msgs, 1, FindLastIndex(msgs, "testCaseStarted") - 1)

specEnvelopesHandler(data) ==
    /\ UNCHANGED <<config, log>>
    /\ IF ~config.isTextTerminal
       THEN /\ ret' = Return("specEnvelopesHandler", "passthrough")
            /\ UNCHANGED <<state, channels>>
       ELSE IF state.state \in specEnvelopesAccepts
       THEN /\ channels' = Emit(channels, state.pretty, data)
            /\ state' = [state |-> "received-envelopes", pretty |-> state.pretty,
                         messages |-> data]
            /\ ret' = ReturnData("returned", data)
       ELSE IF state.state \in specEnvelopesReloads
       THEN IF FindLastIndex(state.messages, "testCaseStarted") = 0
            THEN /\ ret' = Return("specEnvelopesHandler", "Error")
                 /\ UNCHANGED <<state, channels>>
            ELSE /\ IF state.pretty.enabled
                    THEN /\ channels' =
                              Emit(createPrettyStream(end(channels, state.pretty.writable)),
                                   PrettyEnabled(Len(channels) + 1), data)
                         /\ state' = [state |-> "received-envelopes",
                                      pretty |-> PrettyEnabled(Len(channels) + 1),
                                      messages |-> specEnvelopesRollback(state.messages, data)]
                    ELSE /\ UNCHANGED channels
                         /\ state' = [state |-> "received-envelopes",
                                      pretty |-> state.pretty,
                                      messages |-> specEnvelopesRollback(state.messages, data)]
                 /\ ret' = ReturnData("reloaded", data)
       ELSE /\ ret' = createStateError("specEnvelopesHandler", state.state)
            /\ UNCHANGED <<state, channels>>


(***************************************************************************)
(* testCaseStartedHandler / testStepStartedHandler                         *)
(***************************************************************************)
\* case "received-envelopes": case "test-finished": break;
testCaseStartedAccepts == {"received-envelopes", "test-finished"}

\* The new state without the concat of the envelope.
testCaseStartedStateNoConcat(st, data) ==
  [state |-> "test-started", pretty |-> st.pretty, messages |-> st.messages,
   testCaseStartedId |-> data.id]

\* Lines 578-583
testCaseStartedState(st, data) ==
  [state |-> "test-started", pretty |-> st.pretty,
   messages |-> Append(st.messages, TestCaseStarted(data)),
   testCaseStartedId |-> data.id]

testCaseStartedHandler(data) ==
    /\ UNCHANGED <<config, log>>
    /\ IF ~config.isTextTerminal
       THEN /\ ret' = Return("testCaseStartedHandler", "passthrough")
            /\ UNCHANGED <<state, channels>>
       ELSE IF state.state \notin testCaseStartedAccepts
       THEN /\ ret' = createStateError("testCaseStartedHandler", state.state)
            /\ UNCHANGED <<state, channels>>
       ELSE /\ channels' = Emit(channels, state.pretty, << TestCaseStarted(data) >>)
            /\ state' = testCaseStartedState(state, data)
            /\ ret' = Return("testCaseStartedHandler", "returned")

\* case "test-started": case "step-finished": break; case "step-started": break;
testStepStartedAccepts == {"test-started", "step-finished", "step-started"}

\* The new state taking the test case's id from the event instead of the state.
testStepStartedStateIdFromData(st, data) ==
  [state |-> "step-started", pretty |-> st.pretty,
   messages |-> Append(st.messages, TestStepStarted(data)),
   testCaseStartedId |-> data.testCaseStartedId,
   testStepStartedId |-> data.testStepId]

testStepStartedState(st, data) ==
  [state |-> "step-started", pretty |-> st.pretty,
   messages |-> Append(st.messages, TestStepStarted(data)),
   testCaseStartedId |-> st.testCaseStartedId,
   testStepStartedId |-> data.testStepId]

testStepStartedHandler(data) ==
    /\ UNCHANGED <<config, log>>
    /\ IF ~config.isTextTerminal
       THEN /\ ret' = Return("testStepStartedHandler", "passthrough")
            /\ UNCHANGED <<state, channels>>
       ELSE IF state.state \notin testStepStartedAccepts
       THEN /\ ret' = createStateError("testStepStartedHandler", state.state)
            /\ UNCHANGED <<state, channels>>
       ELSE /\ channels' = Emit(channels, state.pretty, << TestStepStarted(data) >>)
            /\ state' = testStepStartedState(state, data)
            /\ ret' = Return("testStepStartedHandler", "returned")

(***************************************************************************)
(* createStringAttachmentHandler                                           *)
(***************************************************************************)
\* case "step-started": break;
createStringAttachmentAccepts == {"step-started"}

\* An envelope that names the test case where the step belongs.
stringAttachmentMessageWrongStep(st, attachment) ==
  Attachment(st.testCaseStartedId, st.testCaseStartedId, attachment.data,
             attachment.mediaType, attachment.encoding)

\* The attachment envelope of lines 819-827.
stringAttachmentMessage(st, attachment) ==
  Attachment(st.testCaseStartedId, st.testStepStartedId, attachment.data,
             attachment.mediaType, attachment.encoding)

\* state.messages after the handler has run, in a state it accepts: nothing is
\* pushed when messages are disabled.
createStringAttachmentPush(st, attachment) ==
  IF config.messages
  THEN Append(st.messages, stringAttachmentMessage(st, attachment))
  ELSE st.messages

createStringAttachmentHandler(attachment) ==
    /\ UNCHANGED <<config, channels, log>>
    /\ IF ~config.isTextTerminal \/ ~config.messages
       THEN /\ ret' = Return("createStringAttachmentHandler", "passthrough")
            /\ UNCHANGED state
       ELSE IF state.state \notin createStringAttachmentAccepts
       THEN /\ ret' = createStateError("createStringAttachmentHandler", state.state)
            /\ UNCHANGED state
       ELSE /\ state' = [state EXCEPT !.messages = createStringAttachmentPush(state, attachment)]
            /\ ret' = Return("createStringAttachmentHandler", "returned")

(***************************************************************************)
(* testStepFinishedHandler                                                 *)
(***************************************************************************)
\* case "step-started": break;
testStepFinishedAccepts == {"step-started"}

\* A handler without the assertion of line 750.
AssertHookIdSkipped(testStep) == TRUE

\* assert(hookId != null, ...), line 750
AssertHookId(testStep) == testStep.hookId # NULL

\* Lines 661-702: the objects the ids resolve to, or the assertion that fails.
Resolve(msgs, testStepFinished) ==
  LET iStarted == FindIndex({i \in 1..Len(msgs) :
                               /\ msgs[i].type = "testCaseStarted"
                               /\ msgs[i].id = testStepFinished.testCaseStartedId})
  IN
  IF iStarted = 0 THEN [error |-> "Expected to find a testCaseStarted"] ELSE
  LET pickleId == msgs[iStarted].testCaseId
      iTestCase == FindIndex({i \in 1..Len(msgs) :
                                msgs[i].type = "testCase" /\ msgs[i].id = pickleId})
  IN
  IF iTestCase = 0 THEN [error |-> "Expected to find a testCase"] ELSE
  LET testSteps == msgs[iTestCase].testSteps
      iTestStep == FindIndex({i \in 1..Len(testSteps) :
                                testSteps[i].id = testStepFinished.testStepId})
  IN
  IF iTestStep = 0 THEN [error |-> "Expected to find a testStep"] ELSE
  LET testStep == testSteps[iTestStep] IN
  IF testStep.pickleStepId # NULL THEN
    LET iPickle == FindIndex({i \in 1..Len(msgs) :
                                msgs[i].type = "pickle" /\ msgs[i].id = pickleId}) IN
    IF iPickle = 0 THEN [error |-> "Expected to find a pickle"] ELSE
    LET pickle == msgs[iPickle]
        iPickleStep == FindIndex({i \in 1..Len(pickle.steps) :
                                  pickle.steps[i] = testStep.pickleStepId})
        iDocument == FindIndex({i \in 1..Len(msgs) :
                                /\ msgs[i].type = "gherkinDocument"
                                /\ msgs[i].uri = pickle.uri})
    IN
    IF iPickleStep = 0 THEN [error |-> "Expected to find a pickleStep"] ELSE
    IF iDocument = 0 THEN [error |-> "Expected to find a gherkinDocument"] ELSE
    [kind |-> "pickleStep", pickle |-> iPickle, pickleStep |-> pickle.steps[iPickleStep],
     gherkinDocument |-> iDocument, testCaseStarted |-> iStarted, testCase |-> iTestCase]
  ELSE
    IF ~AssertHookId(testStep)
    THEN [error |-> "Expected a hookId in absence of pickleStepId"]
    ELSE [kind |-> "hook", testCaseStarted |-> iStarted, testCase |-> iTestCase]

\* Lines 704-744: the attachments the callback has pushed when it returns, or the
\* error the first failing attach call throws out of it.
RunOnAfterStep(onAfterStep) ==
  IF ~onAfterStep.defined THEN [attachments |-> << >>]
  ELSE LET made == [i \in 1..Len(onAfterStep.value) |-> attach(onAfterStep.value[i])]
           bad == {i \in 1..Len(made) : IsError(made[i])}
       IN  IF bad = {} THEN [attachments |-> made]
           ELSE made[CHOOSE i \in bad : \A j \in bad : i <= j]

RECURSIVE PushAllReversed(_, _)
\* The loop of lines 746-748 run over the attachments last to first.
PushAllReversed(st, attachments) ==
  IF attachments = << >> THEN st
  ELSE PushAllReversed([st EXCEPT !.messages =
                          createStringAttachmentPush(st, attachments[Len(attachments)])],
                       SubSeq(attachments, 1, Len(attachments) - 1))

RECURSIVE PushAll(_, _)
\* Lines 746-748: createStringAttachmentHandler for each attachment, in order.
PushAll(st, attachments) ==
  IF attachments = << >> THEN st
  ELSE PushAll([st EXCEPT !.messages = createStringAttachmentPush(st, Head(attachments))],
               Tail(attachments))

\* Lines 753-758
testStepFinishedState(st, testStepFinished) ==
  [state |-> "step-finished", pretty |-> st.pretty,
   messages |-> Append(st.messages, TestStepFinished(testStepFinished)),
   testCaseStartedId |-> st.testCaseStartedId]

testStepFinishedHandler(onAfterStep, testStepFinished) ==
    /\ UNCHANGED <<config, log>>
    /\ IF ~config.isTextTerminal
       THEN /\ ret' = Return("testStepFinishedHandler", "passthrough")
            /\ UNCHANGED <<state, channels>>
       ELSE IF state.state \notin testStepFinishedAccepts
       THEN /\ ret' = createStateError("testStepFinishedHandler", state.state)
            /\ UNCHANGED <<state, channels>>
       ELSE LET resolved == Resolve(state.messages, testStepFinished)
                \* the callback is only called for a pickle step that resolves
                calls == ~IsError(resolved) /\ resolved.kind = "pickleStep"
                called == IF calls THEN RunOnAfterStep(onAfterStep)
                          ELSE [attachments |-> << >>]
                option == IF calls THEN onAfterStep ELSE UNDEFINED
            IN
            /\ channels' = Emit(channels, state.pretty, << TestStepFinished(testStepFinished) >>)
            /\ IF IsError(resolved)
               THEN /\ ret' = ReturnStep("AssertionError", testStepFinished, option)
                    /\ UNCHANGED state
               ELSE IF IsError(called)
               THEN /\ ret' = ReturnStep("AttachError", testStepFinished, option)
                    /\ UNCHANGED state
               ELSE /\ state' = testStepFinishedState(PushAll(state, called.attachments),
                                                      testStepFinished)
                    /\ ret' = ReturnStep("returned", testStepFinished, option)

(***************************************************************************)
(* testCaseFinishedHandler                                                 *)
(***************************************************************************)
\* A switch that also lets the event through while a step is open.
testCaseFinishedAcceptsOpenStep == {"test-started", "step-finished", "step-started"}

\* case "test-started": case "step-finished": break;
testCaseFinishedAccepts == {"test-started", "step-finished"}

\* The new state without the concat of the envelope.
testCaseFinishedStateNoConcat(st, data) ==
  [state |-> "test-finished", pretty |-> st.pretty, messages |-> st.messages]

testCaseFinishedState(st, data) ==
  [state |-> "test-finished", pretty |-> st.pretty,
   messages |-> Append(st.messages, TestCaseFinished(data))]

testCaseFinishedHandler(data) ==
    /\ UNCHANGED <<config, log>>
    /\ IF ~config.isTextTerminal
       THEN /\ ret' = Return("testCaseFinishedHandler", "passthrough")
            /\ UNCHANGED <<state, channels>>
       ELSE IF state.state \notin testCaseFinishedAccepts
       THEN /\ ret' = createStateError("testCaseFinishedHandler", state.state)
            /\ UNCHANGED <<state, channels>>
       ELSE /\ channels' = Emit(channels, state.pretty, << TestCaseFinished(data) >>)
            /\ state' = testCaseFinishedState(state, data)
            /\ ret' = Return("testCaseFinishedHandler", "returned")

(***************************************************************************)
(* The orchestrator calls the handlers one at a time, in any order.        *)
(***************************************************************************)
Next ==
  \/ beforeRunHandler /\ Fits'
  \/ afterRunHandler /\ Fits'
  \/ \E feature \in BOOLEAN : beforeSpecHandler(feature) /\ Fits'
  \/ \E feature \in BOOLEAN, results \in RunResults :
       afterSpecHandler(feature, results) /\ Fits'
  \/ \E details \in ScreenshotDetails : afterScreenshotHandler(details) /\ Fits'
  \/ \E data \in SpecEnvelopes : specEnvelopesHandler(data) /\ Fits'
  \/ \E data \in ITaskTestCaseStarted : testCaseStartedHandler(data) /\ Fits'
  \/ \E data \in ITaskTestStepStarted : testStepStartedHandler(data) /\ Fits'
  \/ \E onAfterStep \in OnAfterStep, testStepFinished \in ITaskTestStepFinished :
       testStepFinishedHandler(onAfterStep, testStepFinished) /\ Fits'
  \/ \E data \in ITaskTestCaseFinished : testCaseFinishedHandler(data) /\ Fits'
  \/ \E attachment \in ITaskCreateStringAttachment :
       createStringAttachmentHandler(attachment) /\ Fits'

Spec == Init /\ [][Next]_vars

(***************************************************************************)
(* A run with message output alone whose specs all hold one scenario of    *)
(* two pickle steps: the same handlers, called with that scenario's data,  *)
(* without screenshots and explicit attachments.                           *)
(***************************************************************************)
RunSpecEnvelopes ==
  << GherkinDocument("u1"),
     Pickle("p1", "u1", <<"ps1", "ps2">>),
     TestCase("p1", << TestStep("ts1", "ps1", NULL), TestStep("ts2", "ps2", NULL) >>) >>

RunTestStepStarted ==
  { [testCaseStartedId |-> "tcs1", testStepId |-> "ts1"],
    [testCaseStartedId |-> "tcs1", testStepId |-> "ts2"] }

RunTestStepFinished ==
  { [testCaseStartedId |-> "tcs1", testStepId |-> "ts1"],
    [testCaseStartedId |-> "tcs1", testStepId |-> "ts2"] }

\* No callback, one that attaches twice, and one whose second attach call throws.
RunOnAfterStepOptions ==
  { UNDEFINED,
    Defined(<< TextCall("hello", UNDEFINED), BufferCall("ABC", Defined(<<"image/png">>)) >>),
    Defined(<< TextCall("hello", Defined(<<"text/html">>)), BufferCall("ABC", UNDEFINED) >>) }

InitRun ==
  /\ config = [isTextTerminal |-> TRUE, messages |-> TRUE, pretty |-> FALSE]
  /\ state = StateInitial
  /\ channels = << >>
  /\ log \in {[exists |-> FALSE, lines |-> << >>],
              [exists |-> TRUE, lines |-> << TestRunFinished >>]}
  /\ ret = Return("none", "none")

\* The state is within the run's bound, and no envelope is held twice: the
\* orchestrator delivers each event of the scenario once.
FitsRun ==
  LET held == log.lines \o (IF HasMessages(state) THEN state.messages ELSE << >>)
  IN  /\ Used <= MaxRun
      /\ \A i, j \in 1..Len(held) : held[i] = held[j] => i = j

NextRun ==
  \/ beforeRunHandler /\ FitsRun'
  \/ afterRunHandler /\ FitsRun'
  \/ beforeSpecHandler(TRUE) /\ FitsRun'
  \/ \E results \in RunResults : afterSpecHandler(TRUE, results) /\ FitsRun'
  \/ specEnvelopesHandler(RunSpecEnvelopes) /\ FitsRun'
  \/ \E data \in ITaskTestCaseStarted : testCaseStartedHandler(data) /\ FitsRun'
  \/ \E data \in RunTestStepStarted : testStepStartedHandler(data) /\ FitsRun'
  \/ \E onAfterStep \in RunOnAfterStepOptions, testStepFinished \in RunTestStepFinished :
       testStepFinishedHandler(onAfterStep, testStepFinished) /\ FitsRun'
  \/ \E data \in ITaskTestCaseFinished : testCaseFinishedHandler(data) /\ FitsRun'

SpecRun == InitRun /\ [][NextRun]_vars

(***************************************************************************)
(* The attach capability over its input shapes: one spec whose steps run   *)
(* an onAfterStep callback that makes one or two attach calls, drawn from  *)
(* texts and Buffers with and without a media type and a non-string,       *)
(* non-Buffer value.                                                       *)
(***************************************************************************)
MaxAttach == 6

AttachCalls ==
  { TextCall("QUJD", Defined(<<"base64:", "image/png">>)),
    TextCall("hello", Defined(<<"base64:">>)),
    TextCall("hello", Defined(<<"base64:", "text/", "base64:">>)),
    TextCall("hello", Defined(<<"text/", "base64:">>)),
    TextCall("hello", Defined(<<"text/html">>)),
    TextCall("hello", Defined(<< >>)),
    TextCall("hello", UNDEFINED),
    BufferCall("ABC", Defined(<<"image/png">>)),
    BufferCall("PNG", Defined(<<"base64:", "image/png">>)),
    BufferCall("ABC", UNDEFINED),
    OtherCall }

\* A callback makes one call, or one call and then a Buffer call, which fails
\* when it has no media type.
AttachOnAfterStep ==
  {Defined(<<c>>) : c \in AttachCalls}
    \cup {Defined(<<c, BufferCall("ABC", m)>>) :
            c \in AttachCalls, m \in {UNDEFINED, Defined(<<"image/png">>)}}

InitAttach ==
  /\ config = [isTextTerminal |-> TRUE, messages |-> TRUE, pretty |-> FALSE]
  /\ state = StateInitial
  /\ channels = << >>
  /\ log = [exists |-> FALSE, lines |-> << >>]
  /\ ret = Return("none", "none")

FitsAttach == Used <= MaxAttach

NextAttach ==
  \/ beforeSpecHandler(TRUE) /\ FitsAttach'
  \/ specEnvelopesHandler(RunSpecEnvelopes) /\ FitsAttach'
  \/ \E data \in ITaskTestCaseStarted : testCaseStartedHandler(data) /\ FitsAttach'
  \/ \E data \in RunTestStepStarted : testStepStartedHandler(data) /\ FitsAttach'
  \/ \E onAfterStep \in AttachOnAfterStep, testStepFinished \in RunTestStepFinished :
       testStepFinishedHandler(onAfterStep, testStepFinished) /\ FitsAttach'

SpecAttach == InitAttach /\ [][NextAttach]_vars

(***************************************************************************)
(* The transition table of the specification (section 4.1), in the names   *)
(* of the handlers, and helpers for the properties below.                  *)
(***************************************************************************)
LifecycleHandlers ==
  {"beforeSpecHandler", "specEnvelopesHandler", "testCaseStartedHandler",
   "testStepStartedHandler", "testStepFinishedHandler", "testCaseFinishedHandler"}

TableLegal(handler) ==
  CASE handler = "beforeSpecHandler" -> {"initial", "after-spec", "before-spec", "step-started"}
    [] handler = "specEnvelopesHandler" -> {"before-spec", "step-started"}
    [] handler = "testCaseStartedHandler" -> {"received-envelopes", "test-finished"}
    [] handler = "testStepStartedHandler" -> {"test-started", "step-finished", "step-started"}
    [] handler = "testStepFinishedHandler" -> {"step-started"}
    [] handler = "testCaseFinishedHandler" -> {"test-started", "step-finished"}
    [] handler = "createStringAttachmentHandler" -> {"step-started"}

\* The state the table names for an event accepted in a state.
TableTarget(handler, from) ==
  CASE handler = "beforeSpecHandler" ->
         IF from \in {"initial", "after-spec"} THEN "before-spec" ELSE from
    [] handler = "specEnvelopesHandler" -> "received-envelopes"
    [] handler = "testCaseStartedHandler" -> "test-started"
    [] handler = "testStepStartedHandler" -> "step-started"
    [] handler = "testStepFinishedHandler" -> "step-finished"
    [] handler = "testCaseFinishedHandler" -> "test-finished"

\* The payload an accepted event appends.
EnvelopeOf(handler) ==
  CASE handler = "testCaseStartedHandler" -> "testCaseStarted"
    [] handler = "testStepStartedHandler" -> "testStepStarted"
    [] handler = "testStepFinishedHandler" -> "testStepFinished"
    [] handler = "testCaseFinishedHandler" -> "testCaseFinished"
    [] handler = "afterScreenshotHandler" -> "attachment"
    [] handler = "createStringAttachmentHandler" -> "attachment"

IsPrefix(a, b) == Len(a) <= Len(b) /\ SubSeq(b, 1, Len(a)) = a

Last(msgs) == msgs[Len(msgs)]

Buffer(st) == IF HasMessages(st) THEN st.messages ELSE << >>

\* The step just taken was a call of this handler.
Called(handler) == ret'.handler = handler

Accepted(handler) == ret'.handler = handler /\ ret'.outcome \in {"returned", "reloaded"}

(***************************************************************************)
(* C1.  As stated: in report-producing mode (isTextTerminal, with message   *)
(* output or live formatting enabled), an event arriving in a state that   *)
(* the table does not list for it raises the protocol-violation error and  *)
(* leaves `state` as it was.                                               *)
(***************************************************************************)
C1_Events == LifecycleHandlers \cup {"createStringAttachmentHandler"}

C1_AsStated ==
  [][\A h \in C1_Events :
       ( /\ Called(h)
         /\ config.isTextTerminal
         /\ (config.messages \/ config.pretty)
         /\ (h = "beforeSpecHandler" => ret'.feature)
         /\ state.state \notin TableLegal(h) )
       => (ret'.outcome = "StateError" /\ state' = state)]_vars

\* C1, amended: whenever isTextTerminal holds, the same, where for
\* string-attachment-requested message output is enabled; with it disabled that
\* handler returns without an error in any state.
C1_ProtocolViolation ==
  [][\A h \in C1_Events :
       ( /\ Called(h)
         /\ config.isTextTerminal
         /\ (h = "beforeSpecHandler" => ret'.feature)
         /\ (h = "createStringAttachmentHandler" => config.messages)
         /\ state.state \notin TableLegal(h) )
       => (ret'.outcome = "StateError" /\ state' = state)]_vars

C1_Witness ==
  /\ ret.handler = "testCaseFinishedHandler"
  /\ ret.outcome = "StateError"
  /\ state.state = "step-started"
  /\ Len(state.messages) >= 3

(***************************************************************************)
(* C2.  Every accepted lifecycle event moves `state` to the state the      *)
(* table names, carrying the ids the table names; a lifecycle handler      *)
(* changes `state` in no other way.                                        *)
(***************************************************************************)
C2_Ids(h) ==
  CASE h = "testCaseStartedHandler" ->
         /\ Last(state'.messages).type = "testCaseStarted"
         /\ state'.testCaseStartedId = Last(state'.messages).id
    [] h = "testStepStartedHandler" ->
         /\ Last(state'.messages).type = "testStepStarted"
         /\ state'.testCaseStartedId = state.testCaseStartedId
         /\ state'.testStepStartedId = Last(state'.messages).testStepId
    [] h = "testStepFinishedHandler" ->
         state'.testCaseStartedId = state.testCaseStartedId
    [] OTHER -> TRUE

C2_Transitions ==
  [][\A h \in LifecycleHandlers :
       /\ Accepted(h) =>
            /\ state.state \in TableLegal(h)
            /\ state'.state = TableTarget(h, state.state)
            /\ C2_Ids(h)
       /\ (Called(h) /\ ~Accepted(h)) => state' = state]_vars

C2_Witness ==
  /\ ret.handler = "testStepStartedHandler"
  /\ ret.outcome = "returned"
  /\ state.state = "step-started"
  /\ Count(state.messages, "testStepStarted") >= 2
  /\ Last(state.messages).testCaseStartedId # state.testCaseStartedId

(***************************************************************************)
(* C3.  A reload (static scenario data arriving in step-started) ends in   *)
(* received-envelopes with the buffer cut right before the testCaseStarted *)
(* envelope of the open test case: that envelope and the testStepStarted,  *)
(* testStepFinished and attachment envelopes after it are gone.            *)
(***************************************************************************)
C3_OpenTestCaseStart(st, k) ==
  /\ st.messages[k].type = "testCaseStarted"
  /\ st.messages[k].id = st.testCaseStartedId
  /\ \A j \in (k + 1)..Len(st.messages) :
       st.messages[j].type \in {"testStepStarted", "testStepFinished", "attachment"}

C3_ReloadDiscardsOpenTestCase ==
  [][( /\ Called("specEnvelopesHandler")
       /\ config.isTextTerminal
       /\ state.state = "step-started" )
     => /\ ret'.outcome = "reloaded"
        /\ state'.state = "received-envelopes"
        /\ \E k \in 1..Len(state.messages) :
             /\ C3_OpenTestCaseStart(state, k)
             /\ state'.messages = SubSeq(state.messages, 1, k - 1)]_vars

C3_Witness ==
  /\ ret.handler = "specEnvelopesHandler"
  /\ ret.outcome = "reloaded"
  /\ state.state = "received-envelopes"
  /\ Len(channels) = 2
  /\ channels[1].ended

(***************************************************************************)
(* C4.  As stated: after a reload the buffer is exactly the envelopes just *)
(* received, in the order received.                                        *)
(***************************************************************************)
C4_AsStated ==
  [][(Called("specEnvelopesHandler") /\ ret'.outcome = "reloaded")
     => state'.messages = ret'.data]_vars

\* C4, amended: after a reload the buffer is a proper prefix of the old buffer that
\* keeps every scenario-data envelope and every envelope of the test cases already
\* finished; the envelopes just received are not put into the buffer, they are only
\* replayed into the new pretty stream when live formatting is enabled.
C4_ReloadKeepsEarlierEnvelopes ==
  [][(Called("specEnvelopesHandler") /\ ret'.outcome = "reloaded")
     => /\ IsPrefix(state'.messages, state.messages)
        /\ Len(state'.messages) < Len(state.messages)
        /\ \A i \in 1..Len(state.messages) :
             state.messages[i].type
               \in {"gherkinDocument", "pickle", "testCase", "testCaseFinished"}
             => i <= Len(state'.messages)
        /\ state'.pretty.enabled =>
             channels'[state'.pretty.writable].emitted = ret'.data]_vars

C4_Witness ==
  /\ ret.handler = "specEnvelopesHandler"
  /\ ret.outcome = "reloaded"
  /\ Count(state.messages, "testCaseFinished") = 1
  /\ state.messages # ret.data

(***************************************************************************)
(* C5.  spec-about-to-start received in before-spec or in step-started     *)
(* raises no error and leaves `state` (variant, buffer, ids, pretty        *)
(* handle) and the streams as they were: no new stream is created.         *)
(***************************************************************************)
C5_DuplicateSpecStartIsNoOp ==
  [][( /\ Called("beforeSpecHandler")
       /\ state.state \in {"before-spec", "step-started"} )
     => /\ ret'.outcome # "StateError"
        /\ state' = state
        /\ channels' = channels]_vars

C5_Witness ==
  /\ ret.handler = "beforeSpecHandler"
  /\ ret.outcome = "returned"
  /\ state.state = "step-started"
  /\ state.pretty.enabled
  /\ Len(channels) = 1

(***************************************************************************)
(* C6.  The buffer is append-only along accepted events: test-case-started,*)
(* test-step-started, test-case-finished, screenshot-captured and          *)
(* string-attachment-requested add exactly their envelope at the end;      *)
(* test-step-finished adds the callback's attachments and then its         *)
(* envelope, last; static-scenario-data-received from before-spec makes    *)
(* the buffer the received envelopes.                                      *)
(***************************************************************************)
C6_AppendsOne ==
  {"testCaseStartedHandler", "testStepStartedHandler", "testCaseFinishedHandler",
   "afterScreenshotHandler", "createStringAttachmentHandler"}

C6_BufferAppendOnly ==
  [][/\ \A h \in C6_AppendsOne :
          Accepted(h) =>
            /\ Len(state'.messages) = Len(state.messages) + 1
            /\ IsPrefix(state.messages, state'.messages)
            /\ Last(state'.messages).type = EnvelopeOf(h)
     /\ Accepted("testStepFinishedHandler") =>
          /\ Len(state'.messages) > Len(state.messages)
          /\ IsPrefix(state.messages, state'.messages)
          /\ Last(state'.messages).type = "testStepFinished"
          /\ \A i \in (Len(state.messages) + 1)..(Len(state'.messages) - 1) :
               state'.messages[i].type = "attachment"
     /\ ( /\ Called("specEnvelopesHandler")
          /\ ret'.outcome = "returned"
          /\ state.state = "before-spec" )
        => state'.messages = ret'.data]_vars

C6_Witness ==
  /\ ret.handler = "testCaseFinishedHandler"
  /\ ret.outcome = "returned"
  /\ Last(state.messages).type = "testCaseFinished"
  /\ Count(state.messages, "testStepFinished") = 1

(***************************************************************************)
(* C7.  For a feature spec with isTextTerminal, spec-finished is accepted  *)
(* in every state: it raises no error, ends the pretty stream the state    *)
(* holds, and leaves `state` as after-spec, no stream being left open;     *)
(* spec-about-to-start in after-spec raises no error.                      *)
(***************************************************************************)
C7_SpecFinishedAlwaysAccepted ==
  [][/\ ( /\ Called("afterSpecHandler")
          /\ config.isTextTerminal
          /\ ret'.feature )
        => /\ ret'.outcome = "returned"
           /\ state' = StateAfterSpec
           /\ Len(channels') = Len(channels)
           /\ \A n \in 1..Len(channels') : channels'[n].ended
     /\ ( /\ Called("beforeSpecHandler")
          /\ state.state = "after-spec" )
        => /\ ret'.outcome # "StateError"
           /\ beforeSpecActive(ret'.feature) => state'.state = "before-spec"]_vars

C7_Witness ==
  /\ ret.handler = "afterSpecHandler"
  /\ ret.outcome = "returned"
  /\ state = StateAfterSpec
  /\ Len(channels) = 2
  /\ channels[2].ended

(***************************************************************************)
(* C8.  With message output enabled, an accepted spec-finished leaves the  *)
(* messages file as the old content followed by the whole buffer when no   *)
(* hook failure skipped the remaining tests (nothing when the state holds  *)
(* no buffer, as right after another spec-finished), and leaves the file   *)
(* untouched when one did; either way `state` becomes after-spec, without  *)
(* a buffer.                                                               *)
(***************************************************************************)
C8_FlushOnSpecFinished ==
  [][( /\ Called("afterSpecHandler")
       /\ ret'.outcome = "returned"
       /\ config.messages )
     => /\ state' = StateAfterSpec
        /\ IF ret'.results.value.wasRemainingSkipped
           THEN log' = log
           ELSE /\ log'.lines = log.lines \o Buffer(state)
                /\ state.state = "after-spec" => log' = log]_vars

C8_Witness ==
  /\ ret.handler = "afterSpecHandler"
  /\ ret.outcome = "returned"
  /\ ~ret.results.value.wasRemainingSkipped
  /\ Len(log.lines) > 2
  /\ log.lines[1] = Meta
  /\ Last(log.lines).type = "testCaseFinished"

(***************************************************************************)
(* C9.  test-step-finished appends its envelope only if its                *)
(* testCaseStartedId and testStepId are the testCaseStartedId and          *)
(* testStepStartedId the step-started state holds.                         *)
(***************************************************************************)
C9_OnlyOpenPairFinishes ==
  [][Accepted("testStepFinishedHandler")
     => /\ Last(state'.messages).testCaseStartedId = state.testCaseStartedId
        /\ Last(state'.messages).testStepId = state.testStepStartedId]_vars

(***************************************************************************)
(* C10.  Every attachment in the buffer follows a testStepStarted envelope *)
(* with nothing but attachments in between, and names that step and the    *)
(* test case started last; every handler that appends attachments does so  *)
(* in step-started with the ids the state holds, and screenshot-captured   *)
(* and string-attachment-requested leave the state step-started with the   *)
(* same ids.                                                               *)
(***************************************************************************)
C10_OpenStepOf(msgs, i, j) ==
  /\ msgs[j].type = "testStepStarted"
  /\ \A k \in (j + 1)..(i - 1) : msgs[k].type = "attachment"
  /\ msgs[i].testStepId = msgs[j].testStepId

C10_OpenTestCaseOf(msgs, i) ==
  LET k == FindLastIndex(SubSeq(msgs, 1, i), "testCaseStarted")
  IN  k > 0 /\ msgs[i].testCaseStartedId = msgs[k].id

C10_InBuffer ==
  HasMessages(state) =>
    \A i \in 1..Len(state.messages) :
      state.messages[i].type = "attachment" =>
        /\ \E j \in 1..(i - 1) : C10_OpenStepOf(state.messages, i, j)
        /\ C10_OpenTestCaseOf(state.messages, i)

C10_Appended(i) ==
  /\ state'.messages[i].testCaseStartedId = state.testCaseStartedId
  /\ state'.messages[i].testStepId = state.testStepStartedId

C10_OnAppend ==
  /\ \A h \in {"afterScreenshotHandler", "createStringAttachmentHandler"} :
       Accepted(h) =>
         /\ state.state = "step-started"
         /\ state'.state = "step-started"
         /\ state'.testCaseStartedId = state.testCaseStartedId
         /\ state'.testStepStartedId = state.testStepStartedId
         /\ Last(state'.messages).type = "attachment"
         /\ C10_Appended(Len(state'.messages))
  /\ Accepted("testStepFinishedHandler") =>
       /\ state.state = "step-started"
       /\ \A i \in (Len(state.messages) + 1)..(Len(state'.messages) - 1) :
            state'.messages[i].type = "attachment" /\ C10_Appended(i)
  /\ \A h \in LifecycleHandlers \ {"testStepFinishedHandler"} :
       (Called(h) /\ HasMessages(state'))
       => Count(state'.messages, "attachment")
            <= Count(Buffer(state), "attachment")

C10_AttachmentsNameOpenStep == []C10_InBuffer /\ [][C10_OnAppend]_vars

C10_Witness ==
  /\ state.state = "step-finished"
  /\ \E i \in 2..Len(state.messages) :
       /\ state.messages[i].type = "attachment"
       /\ state.messages[i].contentEncoding = "BASE64"
       /\ state.messages[i - 1].type = "testStepStarted"
       /\ state.messages[i].testStepId = state.messages[i - 1].testStepId

(***************************************************************************)
(* C11.  screenshot-captured in any state other than step-started raises   *)
(* no error, hands the details back, appends nothing and leaves `state`,   *)
(* the messages file and the streams as they were.                         *)
(***************************************************************************)
C11_ScreenshotOutsideStep ==
  [][( /\ Called("afterScreenshotHandler")
       /\ state.state # "step-started" )
     => /\ ret'.outcome \in {"details", "passthrough"}
        /\ state' = state
        /\ log' = log
        /\ channels' = channels]_vars

C11_Witness ==
  /\ ret.handler = "afterScreenshotHandler"
  /\ ret.outcome = "details"
  /\ state.state = "step-finished"
  /\ config.messages

(***************************************************************************)
(* C12.  The end-to-end run of one spec with one passing scenario of two   *)
(* steps: run start, spec-about-to-start, the scenario's data, test case   *)
(* started, the two steps started and finished, test case finished,        *)
(* spec-finished with nothing skipped, run end.  Each of these calls, made *)
(* in the state the calls before it lead to, is accepted and leads to the  *)
(* next state of the run; at its end the messages file holds meta,         *)
(* testRunStarted, the document, the pickle (with the scenario's testCase  *)
(* envelope), testCaseStarted, testStepStarted, testStepFinished,          *)
(* testStepStarted, testStepFinished, testCaseFinished, testRunFinished,   *)
(* in this order.                                                          *)
(***************************************************************************)
C12_Events ==
  << TestCaseStarted([id |-> "tcs1", testCaseId |-> "p1"]),
     TestStepStarted([testCaseStartedId |-> "tcs1", testStepId |-> "ts1"]),
     TestStepFinished([testCaseStartedId |-> "tcs1", testStepId |-> "ts1"]),
     TestStepStarted([testCaseStartedId |-> "tcs1", testStepId |-> "ts2"]),
     TestStepFinished([testCaseStartedId |-> "tcs1", testStepId |-> "ts2"]),
     TestCaseFinished([testCaseStartedId |-> "tcs1"]) >>

\* The envelopes the claim lists.
C12_Listed ==
  << Meta, TestRunStarted, GherkinDocument("u1"), Pickle("p1", "u1", <<"ps1", "ps2">>) >>
    \o C12_Events \o << TestRunFinished >>

C12_Handlers ==
  << "beforeRunHandler", "beforeSpecHandler", "specEnvelopesHandler",
     "testCaseStartedHandler", "testStepStartedHandler", "testStepFinishedHandler",
     "testStepStartedHandler", "testStepFinishedHandler", "testCaseFinishedHandler",
     "afterSpecHandler", "afterRunHandler" >>

C12_Buffer(k) == RunSpecEnvelopes \o SubSeq(C12_Events, 1, k - 3)

\* `state` after the k-th call of the run.
C12_State(k) ==
  CASE k \in {0, 1} -> StateInitial
    [] k = 2 -> [state |-> "before-spec", pretty |-> PrettyDisabled]
    [] k = 3 -> [state |-> "received-envelopes", pretty |-> PrettyDisabled,
                 messages |-> C12_Buffer(k)]
    [] k = 4 -> [state |-> "test-started", pretty |-> PrettyDisabled,
                 messages |-> C12_Buffer(k), testCaseStartedId |-> "tcs1"]
    [] k \in {5, 7} -> [state |-> "step-started", pretty |-> PrettyDisabled,
                        messages |-> C12_Buffer(k), testCaseStartedId |-> "tcs1",
                        testStepStartedId |-> IF k = 5 THEN "ts1" ELSE "ts2"]
    [] k \in {6, 8} -> [state |-> "step-finished", pretty |-> PrettyDisabled,
                        messages |-> C12_Buffer(k), testCaseStartedId |-> "tcs1"]
    [] k = 9 -> [state |-> "test-finished", pretty |-> PrettyDisabled,
                 messages |-> C12_Buffer(k)]
    [] k \in {10, 11} -> StateAfterSpec

\* The messages file after the k-th call of the run.
C12_Lines(k) ==
  << Meta, TestRunStarted >>
    \o (IF k >= 10 THEN C12_Buffer(9) ELSE << >>)
    \o (IF k = 11 THEN << TestRunFinished >> ELSE << >>)

C12_At(k) ==
  /\ state = C12_State(k)
  /\ k > 0 => log = [exists |-> TRUE, lines |-> C12_Lines(k)]

C12_NotTestCase(m) == m.type # "testCase"

\* The call just made was not given one of the orchestrator's other inputs: another
\* pickle or step, a callback that attaches or throws, a hook failure.
C12_Delivered(k) ==
  CASE k = 4 -> ~(state'.state = "test-started"
                  /\ Last(state'.messages).testCaseId # "p1")
    [] k \in {5, 7} -> ~(state'.state = "step-started"
                         /\ state'.testStepStartedId # (IF k = 5 THEN "ts1" ELSE "ts2"))
    [] k \in {6, 8} ->
         /\ ret'.testStepFinished.testStepId = (IF k = 6 THEN "ts1" ELSE "ts2")
         /\ ~ret'.onAfterStep.defined
    [] k = 10 -> ~ret'.results.value.wasRemainingSkipped
    [] OTHER -> TRUE

C12_EndToEndOrder ==
  [][\A k \in 1..11 :
       ( /\ C12_At(k - 1)
         /\ Called(C12_Handlers[k])
         /\ C12_Delivered(k) )
       => /\ ret'.outcome = "returned"
          /\ C12_At(k)'
          /\ k = 11 => SelectSeq(log'.lines, C12_NotTestCase) = C12_Listed]_vars

C12_Witness ==
  /\ ret.handler = "afterRunHandler"
  /\ ret.outcome = "returned"
  /\ C12_At(11)
  /\ Len(log.lines) = 12

(***************************************************************************)
(* C13.  With message output enabled, run start leaves the messages file   *)
(* holding exactly meta and testRunStarted, whatever it held before; from  *)
(* then on every handler call, of any spec, reload or discarded spec,      *)
(* keeps these two as its first lines and only adds lines at its end; and  *)
(* run end adds testRunFinished as the last line, after everything the     *)
(* specs flushed.                                                          *)
(***************************************************************************)
C13_Framed ==
  /\ log.exists
  /\ Len(log.lines) >= 2
  /\ log.lines[1] = Meta
  /\ log.lines[2] = TestRunStarted

C13_RunBoundaries ==
  [][/\ (Called("beforeRunHandler") /\ config.isTextTerminal /\ config.messages)
        => /\ ret'.outcome = "returned"
           /\ log' = [exists |-> TRUE, lines |-> << Meta, TestRunStarted >>]
     /\ (C13_Framed /\ ~Called("beforeRunHandler"))
        => /\ C13_Framed'
           /\ IsPrefix(log.lines, log'.lines)
     /\ (C13_Framed /\ Called("afterRunHandler") /\ config.isTextTerminal /\ config.messages)
        => /\ ret'.outcome = "returned"
           /\ log'.lines = Append(log.lines, TestRunFinished)
           /\ Last(log'.lines) = TestRunFinished]_vars

C13_Witness ==
  /\ ret.handler = "afterRunHandler"
  /\ ret.outcome = "returned"
  /\ C13_Framed
  /\ Len(log.lines) >= 5
  /\ Last(log.lines) = TestRunFinished
  /\ Count(log.lines, "testCase") = 2
  /\ Count(log.lines, "testRunFinished") = 1

(***************************************************************************)
(* C14.  test-step-finished in step-started whose cross-references do not  *)
(* resolve (no testCaseStarted with its testCaseStartedId; no testCase for *)
(* that one's testCaseId; no testStep with its testStepId; for a pickle    *)
(* step no pickle, no such pickle step or no document with the pickle's    *)
(* uri; or a testStep with neither a pickle step nor a hook) fails with    *)
(* the assertion error, and a call that fails so appends nothing and       *)
(* leaves `state` step-started as it was.                                  *)
(***************************************************************************)
\* The testStep resolves through the testCaseStarted envelope at i.
C14_ResolvesVia(msgs, e, i) ==
  /\ msgs[i].type = "testCaseStarted"
  /\ msgs[i].id = e.testCaseStartedId
  /\ \E c \in 1..Len(msgs) :
       /\ msgs[c].type = "testCase"
       /\ msgs[c].id = msgs[i].testCaseId
       /\ \E t \in 1..Len(msgs[c].testSteps) :
            LET testStep == msgs[c].testSteps[t] IN
            /\ testStep.id = e.testStepId
            /\ IF testStep.pickleStepId # NULL
               THEN \E p, d \in 1..Len(msgs) :
                      /\ msgs[p].type = "pickle"
                      /\ msgs[p].id = msgs[i].testCaseId
                      /\ \E s \in 1..Len(msgs[p].steps) :
                           msgs[p].steps[s] = testStep.pickleStepId
                      /\ msgs[d].type = "gherkinDocument"
                      /\ msgs[d].uri = msgs[p].uri
               ELSE testStep.hookId # NULL

C14_Unresolvable(msgs, e) == \A i \in 1..Len(msgs) : ~C14_ResolvesVia(msgs, e, i)

C14_MissingCrossReference ==
  [][( /\ Called("testStepFinishedHandler")
       /\ config.isTextTerminal
       /\ state.state = "step-started" )
     => /\ C14_Unresolvable(state.messages, ret'.testStepFinished)
           => ret'.outcome = "AssertionError"
        /\ ret'.outcome = "AssertionError"
           => /\ state' = state
              /\ log' = log]_vars

C14_Witness ==
  /\ ret.handler = "testStepFinishedHandler"
  /\ ret.outcome = "AssertionError"
  /\ state.state = "step-started"
  /\ SubSeq(state.messages, 1, 3) = FullSpecEnvelopes
  /\ ret.testStepFinished = [testCaseStartedId |-> "tcs1", testStepId |-> "ts2"]
  /\ Last(state.messages).type = "testStepStarted"

(***************************************************************************)
(* C15.  The attachments of the onAfterStep callback are settled inside    *)
(* the test-step-finished transition: the transition appends, after the    *)
(* open step's testStepStarted envelope, one attachment per attach call in *)
(* call order, each naming the open test case and step, and then the       *)
(* testStepFinished envelope; when the callback fails on an invalid        *)
(* attachment nothing is appended and `state` stays step-started.          *)
(***************************************************************************)
\* The calls the callback made, and whether one of them is of an invalid shape.
C15_Calls(option) == IF option.defined THEN option.value ELSE << >>

C15_InvalidCall(call) ==
  \/ call.kind \notin {"string", "Buffer"}
  \/ call.kind = "Buffer" /\ ~call.mediaType.defined

C15_OpenStepStarted(msgs, st) ==
  \E j \in 1..Len(msgs) :
    /\ msgs[j].type = "testStepStarted"
    /\ msgs[j].testStepId = st.testStepStartedId
    /\ \A m \in (j + 1)..Len(msgs) : msgs[m].type = "attachment"

C15_Settled ==
  LET calls == C15_Calls(ret'.onAfterStep)
      n == Len(state.messages)
      k == Len(calls)
  IN  /\ Len(state'.messages) = n + k + 1
      /\ SubSeq(state'.messages, 1, n) = state.messages
      /\ C15_OpenStepStarted(state.messages, state)
      /\ \A i \in 1..k :
           LET a == state'.messages[n + i] IN
           /\ a.type = "attachment"
           /\ a.testCaseStartedId = state.testCaseStartedId
           /\ a.testStepId = state.testStepStartedId
           /\ a.body = attach(calls[i]).data
           /\ a.mediaType = attach(calls[i]).mediaType
      /\ state'.messages[n + k + 1] = TestStepFinished(ret'.testStepFinished)
      /\ state'.state = "step-finished"

C15_CallbackAttachments ==
  [][( /\ Called("testStepFinishedHandler")
       /\ config.isTextTerminal /\ config.messages
       /\ state.state = "step-started" )
     => /\ ret'.outcome = "returned" => C15_Settled
        /\ ret'.outcome = "AttachError"
           <=> \E i \in 1..Len(C15_Calls(ret'.onAfterStep)) :
                 C15_InvalidCall(C15_Calls(ret'.onAfterStep)[i])
        /\ ret'.outcome = "AttachError" => state' = state]_vars

C15_Witness ==
  /\ ret.handler = "testStepFinishedHandler"
  /\ ret.outcome = "returned"
  /\ ret.onAfterStep.defined
  /\ state.state = "step-finished"
  /\ Len(state.messages) >= 4
  /\ LET n == Len(state.messages) IN
     /\ state.messages[n - 3].type = "testStepStarted"
     /\ state.messages[n - 2].type = "attachment"
     /\ state.messages[n - 2].contentEncoding = "IDENTITY"
     /\ state.messages[n - 1].type = "attachment"
     /\ state.messages[n - 1].contentEncoding = "BASE64"
     /\ state.messages[n].type = "testStepFinished"

(***************************************************************************)
(* C16.  attach maps each input shape to one encoding: a text whose media  *)
(* type starts with the base64 marker keeps its body, loses the marker and *)
(* is BASE64; a text with another media type is IDENTITY with that media   *)
(* type; a text with no media type is text/plain and IDENTITY; a Buffer    *)
(* with a media type is BASE64 with that media type; a Buffer with no      *)
(* media type, and any other value, is rejected with an error.             *)
(***************************************************************************)
C16_Rejected == [rejected |-> TRUE]

C16_Expected(call) ==
  IF call.kind = "string" THEN
    IF ~call.mediaType.defined
    THEN [body |-> call.value, mediaType |-> <<"text/plain">>, contentEncoding |-> "IDENTITY"]
    ELSE IF Len(call.mediaType.value) > 0 /\ Head(call.mediaType.value) = "base64:"
    THEN [body |-> call.value, mediaType |-> Tail(call.mediaType.value),
          contentEncoding |-> "BASE64"]
    ELSE [body |-> call.value, mediaType |-> call.mediaType.value,
          contentEncoding |-> "IDENTITY"]
  ELSE IF call.kind = "Buffer" /\ call.mediaType.defined
  THEN [body |-> ToBase64(call.value), mediaType |-> call.mediaType.value,
        contentEncoding |-> "BASE64"]
  ELSE C16_Rejected

C16_AttachMapping ==
  [][( /\ Called("testStepFinishedHandler")
       /\ state.state = "step-started"
       /\ ret'.onAfterStep.defined )
     => LET calls == ret'.onAfterStep.value
            n == Len(state.messages)
        IN  /\ ret'.outcome \in {"returned", "AttachError"}
            /\ ret'.outcome = "AttachError"
               <=> \E i \in 1..Len(calls) : C16_Expected(calls[i]) = C16_Rejected
            /\ ret'.outcome = "returned"
               => \A i \in 1..Len(calls) :
                    LET a == state'.messages[n + i] IN
                    /\ a.type = "attachment"
                    /\ [body |-> a.body, mediaType |-> a.mediaType,
                        contentEncoding |-> a.contentEncoding] = C16_Expected(calls[i])]_vars

C16_Witness ==
  /\ ret.handler = "testStepFinishedHandler"
  /\ ret.outcome = "returned"
  /\ ret.onAfterStep = Defined(<< TextCall("QUJD", Defined(<<"base64:", "image/png">>)) >>)
  /\ Len(state.messages) >= 2
  /\ state.messages[Len(state.messages) - 1] =
       Attachment(state.testCaseStartedId, ret.testStepFinished.testStepId,
                  "QUJD", <<"image/png">>, "BASE64")

(***************************************************************************)
(* C17.  The lookups of test-step-finished use the most recent match: when *)
(* several testCaseStarted envelopes of the buffer carry the event's       *)
(* testCaseStartedId, whether the event resolves is decided by the one     *)
(* nearest the end of the buffer.                                          *)
(***************************************************************************)
C17_LastStarted(msgs, e) ==
  LET hits == {i \in 1..Len(msgs) :
                 msgs[i].type = "testCaseStarted" /\ msgs[i].id = e.testCaseStartedId}
  IN  IF hits = {} THEN 0 ELSE CHOOSE i \in hits : \A j \in hits : j <= i

C17_MostRecentMatch ==
  [][( /\ Called("testStepFinishedHandler")
       /\ config.isTextTerminal
       /\ state.state = "step-started"
       /\ C17_LastStarted(state.messages, ret'.testStepFinished) # 0 )
     => ( ret'.outcome # "AssertionError"
          <=> C14_ResolvesVia(state.messages, ret'.testStepFinished,
                              C17_LastStarted(state.messages, ret'.testStepFinished)) )]_vars

(***************************************************************************)
(* C18.  With pretty output enabled the open stream and the buffer are     *)
(* driven from the same transition: every call of a test-case or test-step *)
(* handler emits to the open stream exactly the testCaseStarted,           *)
(* testStepStarted, testStepFinished and testCaseFinished envelopes it     *)
(* appends to the buffer, so a rejected event emits nothing.               *)
(***************************************************************************)
C18_Forwarded == {"testCaseStarted", "testStepStarted", "testStepFinished", "testCaseFinished"}

C18_IsForwarded(m) == m.type \in C18_Forwarded

C18_Since(before, after) ==
  IF IsPrefix(before, after) THEN SubSeq(after, Len(before) + 1, Len(after)) ELSE << >>

C18_SameTransition ==
  [][( /\ \E h \in {"testCaseStartedHandler", "testStepStartedHandler",
                    "testStepFinishedHandler", "testCaseFinishedHandler"} : Called(h)
       /\ HasMessages(state)
       /\ state.pretty.enabled )
     => LET w == state.pretty.writable IN
        /\ IsPrefix(channels[w].emitted, channels'[w].emitted)
        /\ C18_Since(channels[w].emitted, channels'[w].emitted)
             = SelectSeq(C18_Since(state.messages, state'.messages), C18_IsForwarded)]_vars

(***************************************************************************)
(* C19.  In test-started, step-started and step-finished the buffer holds  *)
(* a testCaseStarted envelope with the id of state.testCaseStartedId, and  *)
(* it is the last testCaseStarted envelope of the buffer; the reload never *)
(* fails with 'Expected to find a testCaseStarted envelope'.               *)
(***************************************************************************)
C19_InTestCase == state.state \in {"test-started", "step-started", "step-finished"}

C19_OpenStartIsLast ==
  /\ C19_InTestCase
     => LET started == {i \in 1..Len(state.messages) :
                          state.messages[i].type = "testCaseStarted"}
        IN  /\ started # {}
            /\ \A i \in started :
                 (\A j \in started : j <= i)
                   => state.messages[i].id = state.testCaseStartedId
  /\ ~(ret.handler = "specEnvelopesHandler" /\ ret.outcome = "Error")

C19_Witness ==
  /\ state.state = "step-started"
  /\ Count(state.messages, "testCaseStarted") = 2
  /\ Count(state.messages, "testCaseFinished") = 1
  /\ Last(state.messages).type = "testStepStarted"

(***************************************************************************)
(* C20.  The buffer respects the bracketing of the lifecycle: every        *)
(* testStepStarted, testStepFinished, attachment and testCaseFinished      *)
(* envelope lies inside a test case, after a testCaseStarted with no       *)
(* testCaseFinished in between; every testStepFinished is preceded within  *)
(* its test case by a testStepStarted with no testStepFinished in between; *)
(* and the buffer a reload leaves ends in an envelope of the scenario data *)
(* or in a testCaseFinished.                                               *)
(***************************************************************************)
C20_Inner == {"testStepStarted", "testStepFinished", "attachment", "testCaseFinished"}

C20_ScenarioData == {"gherkinDocument", "pickle", "testCase"}

C20_InsideTestCase(msgs, i) ==
  \E j \in 1..(i - 1) :
    /\ msgs[j].type = "testCaseStarted"
    /\ \A m \in (j + 1)..(i - 1) : msgs[m].type # "testCaseFinished"

C20_StepOpenBefore(msgs, i) ==
  \E j \in 1..(i - 1) :
    /\ msgs[j].type = "testStepStarted"
    /\ \A m \in (j + 1)..(i - 1) :
         msgs[m].type \notin {"testStepFinished", "testCaseStarted", "testCaseFinished"}

C20_Bracketed(msgs) ==
  \A i \in 1..Len(msgs) :
    /\ msgs[i].type \in C20_Inner => C20_InsideTestCase(msgs, i)
    /\ msgs[i].type = "testStepFinished" => C20_StepOpenBefore(msgs, i)

C20_AfterReload ==
  (ret'.handler = "specEnvelopesHandler" /\ ret'.outcome = "reloaded")
    => /\ state'.state = "received-envelopes"
       /\ state'.messages # << >>
       /\ Last(state'.messages).type \in C20_ScenarioData \cup {"testCaseFinished"}

C20_LifecycleBracketing == [](C20_Bracketed(Buffer(state))) /\ [][C20_AfterReload]_vars

C20_Witness ==
  /\ ret.handler = "specEnvelopesHandler"
  /\ ret.outcome = "reloaded"
  /\ Last(state.messages).type = "testCaseFinished"
  /\ \E i \in 4..Len(state.messages) :
       /\ state.messages[i].type = "testStepFinished"
       /\ state.messages[i - 1].type = "attachment"
       /\ state.messages[i - 2].type = "attachment"
       /\ state.messages[i - 3].type = "testStepStarted"

(***************************************************************************)
(* C21.  The lifecycle of the pretty streams: at most one stream is open   *)
(* at any time, and none in initial and after-spec; a stream is opened     *)
(* only by beforeSpecHandler in initial or after-spec, or by a reload; a   *)
(* reload ends the old stream and opens the new one; a stream is ended     *)
(* once, by the reload or by afterSpecHandler, while it is the stream of   *)
(* `state`; and an ended stream is handed nothing more.                    *)
(***************************************************************************)
C21_Open(chs) == {n \in 1..Len(chs) : ~chs[n].ended}

C21_Held(st) == IF HasPretty(st) /\ st.pretty.enabled THEN {st.pretty.writable} ELSE {}

C21_OneOpen ==
  /\ Cardinality(C21_Open(channels)) <= 1
  /\ state.state \in {"initial", "after-spec"} => C21_Open(channels) = {}
  /\ C21_Open(channels) = C21_Held(state)

C21_Reload == ret'.handler = "specEnvelopesHandler" /\ ret'.outcome = "reloaded"

C21_Step ==
  /\ Len(channels') \in {Len(channels), Len(channels) + 1}
  /\ Len(channels') > Len(channels)
     => /\ ~channels'[Len(channels')].ended
        /\ \/ Called("beforeSpecHandler") /\ state.state \in {"initial", "after-spec"}
           \/ C21_Reload
  /\ (C21_Reload /\ state.pretty.enabled)
     => /\ channels'[state.pretty.writable].ended
        /\ Len(channels') = Len(channels) + 1
        /\ state'.pretty.writable = Len(channels')
  /\ \A n \in 1..Len(channels) :
       /\ channels[n].ended => channels'[n] = channels[n]
       /\ (~channels[n].ended /\ channels'[n].ended)
          => /\ C21_Held(state) = {n}
             /\ Called("afterSpecHandler") \/ C21_Reload

C21_ChannelLifecycle == []C21_OneOpen /\ [][C21_Step]_vars

C21_Witness ==
  /\ ret.handler = "afterSpecHandler"
  /\ state.state = "after-spec"
  /\ Len(channels) = 2
  /\ channels[1].ended
  /\ channels[2].ended

====
